---------------------------- MODULE Spec2Model ----------------------------
(***************************************************************************)
(* A model of one coinnect exchange client instance: the Bitstamp client   *)
(* (src/src/bitstamp/api.rs) or the Kraken implementation of the unified   *)
(* ExchangeApi (src/src/kraken/generic_api.rs, src/src/exchange.rs).       *)
(*                                                                         *)
(* Every public method is one action.  The environment (clock, transport,  *)
(* remote exchange) is a nondeterministic choice inside the action.  The   *)
(* variable `call` records what the last completed call did: what it       *)
(* returned, what it put on the wire and what the client looked like       *)
(* before it.  A Rust panic (an unwrap on None/Err) is the outcome         *)
(* "panic"; it ends the process, so no action is enabled after it.         *)
(***************************************************************************)
EXTENDS Integers, Sequences, FiniteSets, TLC

VARIABLES
    exchange,        \* which client was constructed: "bitstamp" or "kraken"
    now,             \* the wall clock, in clock ticks
    last_request,    \* BitstampApi.last_request
    api_key,         \* BitstampApi.api_key
    api_secret,      \* BitstampApi.api_secret
    customer_id,     \* BitstampApi.customer_id
    last_nonce,      \* the nonce generator's last issued value (0: none yet)
    max_nonce,       \* history: the greatest nonce this instance has put on the wire
    last_sent,       \* history: when this instance last sent a request (-1: never)
    call             \* history: the record of the last completed call

vars == <<exchange, now, last_request, api_key, api_secret, customer_id,
          last_nonce, max_nonce, last_sent, call>>

client == <<last_request, api_key, api_secret, customer_id>>

----------------------------------------------------------------------------
(* Bounds of the model. *)

\* The clock stops at MaxTime.
MaxTime == 4

\* No nonce beyond MaxNonce is issued.
MaxNonce == 4

\* A response arrives at most MaxLatency ticks after its request was sent.
MaxLatency == 1

\* An order book response has at most MaxBook asks and at most MaxBook bids.
MaxBook == 2

\* An order confirmation has at most MaxTxids transaction ids.
MaxTxids == 2

----------------------------------------------------------------------------
(* Values. *)

\* The rate limiter's minimum interval between two requests, in clock ticks.
MinInterval == 2

\* Option<T>
None == [some |-> FALSE, v |-> 0]
Some(x) == [some |-> TRUE, v |-> x]

\* The canonical currency pairs of the model.
Pairs == {"BTC_USD", "XRP_EUR", "ETC_BTC"}

\* The order quantities and prices callers pass.
Amounts == {2}
Prices == {3}

\* f64::to_string on the whole numbers of the model.
Digit == <<"0", "1", "2", "3", "4", "5", "6", "7", "8", "9">>

RECURSIVE to_string(_)
to_string(n) ==
    IF n < 10 THEN Digit[n + 1]
    ELSE to_string(n \div 10) \o Digit[(n % 10) + 1]

Min(a, b) == IF a < b THEN a ELSE b

\* When the response to a request sent at t can arrive.
Arrivals(t) == t..Min(t + MaxLatency, MaxTime)

\* An empty HashMap<&str, &str>.
EmptyMap == [k \in {} |-> ""]

\* map.insert(k, v)
insert(m, k, v) == [x \in DOMAIN m \cup {k} |-> IF x = k THEN v ELSE m[x]]

\* helpers::strip_empties: drops every entry whose value is the empty string.
strip_empties(m) == [k \in {x \in DOMAIN m : m[x] # ""} |-> m[k]]

\* helpers::url_encode_hashmap: the form fields of the body, one k=v per entry.
url_encode_hashmap(m) == {<<k, m[k]>> : k \in DOMAIN m}

\* bitstamp::utils::get_pair_string: the Bitstamp pair registry.
bitstamp_get_pair_string(pair) ==
    CASE pair = "BTC_USD" -> Some("btcusd")
      [] pair = "XRP_EUR" -> Some("xrpeur")
      [] OTHER -> None

\* bitstamp::utils::build_url
build_url(method, pair) == "https://www.bitstamp.net/api/v2/" \o method \o "/" \o pair \o "/"

\* bitstamp::utils::block_or_continue: returns once MinInterval has passed
\* since `last`; the value is the time at which it returns.
block_or_continue(last, t) ==
    IF t - last < MinInterval THEN last + MinInterval ELSE t

\* bitstamp::utils::generate_nonce(None): clock-derived, with an increment
\* when the clock has not passed the last issued value.
generate_nonce(t, last) == IF t > last THEN t ELSE last + 1

\* bitstamp::utils::build_signature: the keyed digest of
\* nonce ++ customer_id ++ api_key under api_secret, kept symbolic.
build_signature(nonce, cid, key, secret) ==
    "HMAC(" \o secret \o "," \o nonce \o cid \o key \o ")"

\* bitstamp::utils::deserialize_json on the two kinds of body of the model.
deserialize_json(buffer) == IF buffer = "json" THEN "Ok" ELSE "InvalidData"

----------------------------------------------------------------------------
(* The record of a call. *)

NoCall ==
    [op |-> "none", pair |-> "", outcome |-> "none",
     transport |-> "none",      \* "none", "ok", "send_failed", "read_failed"
     http |-> 0,                \* requests sent during the call
     nonces |-> 0,              \* nonces consumed during the call
     verb |-> "",               \* "GET" or "POST"
     url |-> "",
     throttled |-> FALSE,       \* the rate limiter ran before the request
     sent_at |-> -1, resp_at |-> -1,
     nonce |-> 0,               \* the nonce generated during the call (0: none)
     params |-> EmptyMap,       \* what the method handed to the query primitive
     body |-> {},               \* the POST body's form fields
     pre_last_request |-> 0, pre_sent |-> -1, pre_max_nonce |-> 0,
     args |-> <<>>,             \* Kraken: the caller's arguments
     raw |-> <<>>,              \* Kraken: what the raw API call returned
     error |-> <<>>,            \* the messages an ExchangeError carries
     result |-> <<>>]           \* Kraken: the canonical value of an Ok

\* A call's record starts from the client as the call found it.
Begin(op, pair) ==
    [NoCall EXCEPT !.op = op, !.pair = pair,
                   !.pre_last_request = last_request,
                   !.pre_sent = last_sent,
                   !.pre_max_nonce = max_nonce]

Alive == call.outcome # "panic"

----------------------------------------------------------------------------
(* Construction. *)

\* BitstampApi::new: last_request is 0, the credentials are the caller's
\* (an absent or empty parameter is the empty string).
Init ==
    /\ exchange \in {"bitstamp", "kraken"}
    /\ now = 1
    /\ last_request = 0
    /\ api_key \in {"K"}
    /\ api_secret = "S"
    /\ customer_id = "42"
    /\ last_nonce = 0
    /\ max_nonce = 0
    /\ last_sent = -1
    /\ call = NoCall

\* Time passes between calls.  The clock is read by the Bitstamp client only
\* (the Kraken client's rate limiter is not part of this model).
Tick ==
    /\ Alive /\ exchange = "bitstamp"
    /\ now < MaxTime
    /\ now' = now + 1
    /\ UNCHANGED <<exchange, client, last_nonce, max_nonce, last_sent, call>>

----------------------------------------------------------------------------
(* Bitstamp: the query primitives. *)

\* The pair check placed after the nonce has been generated.
PairUnsupported_after_nonce(c) ==
    /\ generate_nonce(now, last_nonce) <= MaxNonce
    /\ last_nonce' = generate_nonce(now, last_nonce)
    /\ call' = [c EXCEPT !.outcome = "PairUnsupported", !.nonces = 1,
                         !.nonce = generate_nonce(now, last_nonce)]
    /\ UNCHANGED <<exchange, now, client, max_nonce, last_sent>>

\* A call that returns Err(PairUnsupported) before anything else happens.
PairUnsupported(c) ==
    /\ call' = [c EXCEPT !.outcome = "PairUnsupported"]
    /\ UNCHANGED <<exchange, now, client, last_nonce, max_nonce, last_sent>>

\* The round trip's duration stored in place of the time.
response_latency(sent, arrived) == arrived - sent

\* What public_query stores in last_request once send() has returned at
\* `arrived`: helpers::get_unix_timestamp_ms().
response_timestamp(sent, arrived) == arrived

\* BitstampApi::public_query
public_query(c, params) ==
    LET url == build_url(params["method"], params["pair"])
        t1 == block_or_continue(last_request, now)
        c1 == [c EXCEPT !.params = params, !.url = url, !.verb = "GET",
                        !.throttled = TRUE, !.http = 1, !.sent_at = t1]
    IN  /\ t1 <= MaxTime
        /\ last_sent' = t1
        /\ UNCHANGED <<exchange, api_key, api_secret, customer_id,
                       last_nonce, max_nonce>>
        /\ \/ \* send() is Err: unwrap panics
              /\ now' = t1
              /\ UNCHANGED last_request
              /\ call' = [c1 EXCEPT !.transport = "send_failed",
                                    !.outcome = "panic"]
           \/ \* send() is Ok: the response arrives at t2
              \E t2 \in Arrivals(t1) :
                 /\ now' = t2
                 /\ last_request' = response_timestamp(t1, t2)
                 /\ \/ \* read_to_string is Err: unwrap panics
                       call' = [c1 EXCEPT !.resp_at = t2,
                                          !.transport = "read_failed",
                                          !.outcome = "panic"]
                    \/ \E buffer \in {"json", "garbage"} :
                       call' = [c1 EXCEPT !.resp_at = t2,
                                          !.transport = "ok",
                                          !.outcome = deserialize_json(buffer)]

\* generate_nonce(Some("1")): a fixed nonce.
private_nonce_fixed(t, last) == 1

\* The nonce private_query puts on the wire.
private_nonce(t, last) == generate_nonce(t, last)

\* BitstampApi::private_query
private_query(c, params) ==
    LET url == build_url(params["method"], params["pair"])
        nonce == private_nonce(now, last_nonce)
        nonce_str == to_string(nonce)
        signature == build_signature(nonce_str, customer_id, api_key, api_secret)
        post_params == strip_empties(
                           insert(insert(insert(EmptyMap, "key", api_key),
                                         "signature", signature),
                                  "nonce", nonce_str))
        post_data == url_encode_hashmap(post_params)
        c1 == [c EXCEPT !.params = params, !.url = url, !.verb = "POST",
                        !.nonce = nonce, !.nonces = 1, !.body = post_data,
                        !.http = 1, !.sent_at = now]
    IN  /\ nonce <= MaxNonce
        /\ last_nonce' = nonce
        /\ max_nonce' = IF nonce > max_nonce THEN nonce ELSE max_nonce
        /\ last_sent' = now
        /\ UNCHANGED <<exchange, client>>
        /\ \/ \* send() is Err: unwrap panics
              /\ UNCHANGED now
              /\ call' = [c1 EXCEPT !.transport = "send_failed",
                                    !.outcome = "panic"]
           \/ \* send() is Ok: the response arrives at t2
              \E t2 \in Arrivals(now) :
                 /\ now' = t2
                 /\ \/ \* read_to_string is Err: unwrap panics
                       call' = [c1 EXCEPT !.resp_at = t2,
                                          !.transport = "read_failed",
                                          !.outcome = "panic"]
                    \/ \E buffer \in {"json", "garbage"} :
                       call' = [c1 EXCEPT !.resp_at = t2,
                                          !.transport = "ok",
                                          !.outcome = deserialize_json(buffer)]

----------------------------------------------------------------------------
(* Bitstamp: the public methods. *)

\* The shape shared by the three public-data methods.
bitstamp_public(op, method) ==
    /\ Alive /\ exchange = "bitstamp"
    /\ \E pair \in Pairs :
         LET pair_name == bitstamp_get_pair_string(pair)
             c == Begin(op, pair)
         IN  IF ~pair_name.some
             THEN PairUnsupported(c)
             ELSE public_query(c, insert(insert(EmptyMap, "pair", pair_name.v),
                                         "method", method))

return_ticker == bitstamp_public("return_ticker", "ticker")

return_order_book == bitstamp_public("return_order_book", "order_book")

return_trade_history == bitstamp_public("return_trade_history", "transactions")

return_balances ==
    /\ Alive /\ exchange = "bitstamp"
    /\ \E pair \in Pairs :
         LET pair_name == bitstamp_get_pair_string(pair)
             c == Begin("return_balances", pair)
         IN  IF ~pair_name.some
             THEN PairUnsupported(c)
             ELSE private_query(c, insert(insert(EmptyMap, "method", "balance"),
                                          "pair", pair_name.v))

\* The parameters buy_limit and sell_limit build.
limit_params(method, pair_name, amount, price, price_limit, daily_order) ==
    LET amount_string == to_string(amount)
        price_string == to_string(price)
        price_limit_string ==
            IF price_limit.some THEN to_string(price_limit.v) ELSE ""
        p == insert(insert(insert(insert(insert(EmptyMap,
                 "method", method),
                 "pair", pair_name),
                 "amount", amount_string),
                 "price", price_string),
                 "limit_price", price_limit_string)
    IN  IF daily_order.some
        THEN insert(p, "daily_order", IF daily_order.v THEN "True" ELSE "")
        ELSE p

\* The shape shared by buy_limit and sell_limit.
bitstamp_limit(op, method) ==
    /\ Alive /\ exchange = "bitstamp"
    /\ \E pair \in Pairs, amount \in Amounts, price \in Prices,
          price_limit \in {None} \cup {Some(p) : p \in Prices},
          daily_order \in {[some |-> FALSE, v |-> FALSE],
                           [some |-> TRUE, v |-> TRUE],
                           [some |-> TRUE, v |-> FALSE]} :
         LET pair_name == bitstamp_get_pair_string(pair)
             c == Begin(op, pair)
         IN  IF ~pair_name.some
             THEN PairUnsupported(c)
             ELSE private_query(c, limit_params(method, pair_name.v, amount,
                                                price, price_limit, daily_order))

buy_limit == bitstamp_limit("buy_limit", "buy")

sell_limit == bitstamp_limit("sell_limit", "sell")

\* The shape shared by buy_market and sell_market.
bitstamp_market(op, method) ==
    /\ Alive /\ exchange = "bitstamp"
    /\ \E pair \in Pairs, amount \in Amounts :
         LET pair_name == bitstamp_get_pair_string(pair)
             amount_string == to_string(amount)
             c == Begin(op, pair)
         IN  IF ~pair_name.some
             THEN PairUnsupported(c)
             ELSE private_query(c, insert(insert(insert(EmptyMap,
                                     "method", method),
                                     "pair", pair_name.v),
                                     "amount", amount_string))

buy_market == bitstamp_market("buy_market", "buy/market")

sell_market == bitstamp_market("sell_market", "sell/market")

----------------------------------------------------------------------------
(* Kraken: JSON values and the raw API. *)

\* serde_json::Value, as far as the normalizer looks at it.
JStr(s) == [t |-> "str", s |-> s]
JNum(n) == [t |-> "num", s |-> to_string(n)]
JNull == [t |-> "null", s |-> ""]

\* A JSON array, or the Null that indexing a missing key gives.
JArr(a) == [present |-> TRUE, arr |-> a]
Missing == [present |-> FALSE, arr |-> <<>>]

\* Value::as_str
as_str(v) == IF v.t = "str" THEN Some(v.s) ELSE None

\* The numbers a string of the model can hold.
Numerals == 0..12

\* str::parse::<f64>
parse_f64(s) ==
    IF \E n \in Numerals : to_string(n) = s
    THEN Some(CHOOSE n \in Numerals : to_string(n) = s)
    ELSE None

\* v.as_str().unwrap().parse::<f64>().unwrap(); None stands for the panic.
unwrap_f64(v) ==
    LET s == as_str(v)
    IN  IF s.some THEN parse_f64(s.v) ELSE None

\* Result<Map<String, Value>, Error>
Ok(v) == [ok |-> TRUE, err |-> "", v |-> v]
Err(e) == [ok |-> FALSE, err |-> e, v |-> <<>>]

\* The response envelope: an error list and the data.
Envelope(error, data) == [error |-> error, data |-> data]

\* What a raw KrakenApi call returns when it does not return data: a
\* transport error, a body that is not JSON, or the envelope of a remote
\* error, which holds an error list and nothing (`nothing`) where the data
\* would be.
Failures(nothing) ==
    {Err("Network"), Err("InvalidData"),
     Ok(Envelope(<<"EAPI:Invalid signature">>, nothing))}

\* kraken::utils::parse_result: a non-empty error list is an ExchangeError.
parse_result(response) ==
    IF response.error # <<>> THEN Err("ExchangeError") ELSE Ok(response.data)

\* kraken::utils::get_pair_string: the Kraken pair registry.
kraken_get_pair_string(pair) ==
    CASE pair = "BTC_USD" -> Some("XXBTZUSD")
      [] OTHER -> None

\* All sequences over S of length at most n.
SeqUpTo(S, n) == UNION {[1..k -> S] : k \in 0..n}

\* The state a Kraken call leaves untouched.
kraken_frame == UNCHANGED <<exchange, now, client, last_nonce, max_nonce, last_sent>>

\* A raw KrakenApi call: one request, authenticated or not.
kraken_raw(c, verb, request, raw) ==
    [c EXCEPT !.http = 1, !.verb = verb, !.params = request, !.raw = raw,
              !.nonces = IF verb = "POST" THEN 1 ELSE 0]

\* The `?` on the raw call and on parse_result: the outcome when either is
\* an Err, "" when the data comes through.
early_return(raw) ==
    IF ~raw.ok THEN raw.err
    ELSE IF ~parse_result(raw.v).ok THEN parse_result(raw.v).err
    ELSE ""

\* The record of a call that returned early with an error.
returned_err(c, raw) ==
    [c EXCEPT !.outcome = early_return(raw),
              !.error = IF raw.ok THEN raw.v.error ELSE <<>>]

----------------------------------------------------------------------------
(* Kraken: ticker. *)

\* The data of a ticker response: the pair's entry (or none) with c[0], a[0],
\* b[0] and v[1].
TickerVals == {JStr("7"), JStr("x"), JNull}

NoTicker == [has_pair |-> FALSE, c |-> JNull, a |-> JNull, b |-> JNull, v |-> JNull]

TickerData ==
    {NoTicker}
    \cup [has_pair : {TRUE}, c : TickerVals, a : TickerVals, b : TickerVals,
          v : TickerVals]

TickerResponses == Failures(NoTicker) \cup {Ok(Envelope(<<>>, d)) : d \in TickerData}

\* The normalisation of ticker data (generic_api.rs lines 25-37).
ticker_normalize(c, pair, result) ==
    LET price == unwrap_f64(result.c)
        ask == unwrap_f64(result.a)
        bid == unwrap_f64(result.b)
        vol == unwrap_f64(result.v)
    IN  IF result.has_pair /\ price.some /\ ask.some /\ bid.some /\ vol.some
        THEN [c EXCEPT !.outcome = "Ok",
                       !.result = [timestamp |-> now, pair |-> pair,
                                   last_trade_price |-> price.v,
                                   lowest_ask |-> ask.v,
                                   highest_bid |-> bid.v,
                                   volume |-> Some(vol.v)]]
        ELSE [c EXCEPT !.outcome = "panic"]

\* The data read before the error list is looked at.
ticker_response_data_first(c, pair, raw) ==
    IF ~raw.ok THEN returned_err(c, raw)
    ELSE ticker_normalize(c, pair, raw.v.data)

\* What ticker does with the raw response.
ticker_response(c, pair, raw) ==
    IF early_return(raw) # "" THEN returned_err(c, raw)
    ELSE ticker_normalize(c, pair, parse_result(raw.v).v)

\* ExchangeApi::ticker for KrakenApi
ticker ==
    /\ Alive /\ exchange = "kraken"
    /\ \E pair \in Pairs :
         LET pair_name == kraken_get_pair_string(pair)
             c == [Begin("ticker", pair) EXCEPT !.args = <<pair>>]
         IN  IF ~pair_name.some
             THEN PairUnsupported(c)
             ELSE /\ kraken_frame
                  /\ \E raw \in TickerResponses :
                       call' = ticker_response(
                                   kraken_raw(c, "GET", [pair |-> pair_name.v], raw),
                                   pair, raw)

----------------------------------------------------------------------------
(* Kraken: orderbook. *)

\* The [price, volume] entries of the model: two of strings, one of numbers.
BookEntries ==
    {<<JStr("9"), JStr("1")>>, <<JStr("8"), JStr("2")>>,
     <<JNum(9), JNum(1)>>}

BookSides == {Missing} \cup {JArr(a) : a \in SeqUpTo(BookEntries, MaxBook)}

NoBook == [has_pair |-> FALSE, asks |-> Missing, bids |-> Missing]

BookData ==
    {NoBook}
    \cup [has_pair : {TRUE}, asks : BookSides, bids : BookSides]

BookResponses == Failures(NoBook) \cup {Ok(Envelope(<<>>, d)) : d \in BookData}

\* The two indices of an entry taken the wrong way round.
offers_swapped(arr) == [i \in 1..Len(arr) |-> <<unwrap_f64(arr[i][2]).v, unwrap_f64(arr[i][1]).v>>]

\* One loop of orderbook: the offers pushed, in the array's order.
offers(arr) == [i \in 1..Len(arr) |-> <<unwrap_f64(arr[i][1]).v, unwrap_f64(arr[i][2]).v>>]

\* Whether one loop of orderbook runs to its end without a panic.
offers_ok(arr) ==
    \A i \in 1..Len(arr) : unwrap_f64(arr[i][1]).some /\ unwrap_f64(arr[i][2]).some

\* The normalisation of order book data (generic_api.rs lines 51-74).
orderbook_normalize(c, pair, result) ==
    IF /\ result.has_pair
       /\ result.asks.present /\ result.bids.present
       /\ offers_ok(result.asks.arr) /\ offers_ok(result.bids.arr)
    THEN [c EXCEPT !.outcome = "Ok",
                   !.result = [timestamp |-> now, pair |-> pair,
                               asks |-> offers(result.asks.arr),
                               bids |-> offers(result.bids.arr)]]
    ELSE [c EXCEPT !.outcome = "panic"]

\* What orderbook does with the raw response.
orderbook_response(c, pair, raw) ==
    IF early_return(raw) # "" THEN returned_err(c, raw)
    ELSE orderbook_normalize(c, pair, parse_result(raw.v).v)

\* ExchangeApi::orderbook for KrakenApi
orderbook ==
    /\ Alive /\ exchange = "kraken"
    /\ \E pair \in Pairs :
         LET pair_name == kraken_get_pair_string(pair)
             c == [Begin("orderbook", pair) EXCEPT !.args = <<pair>>]
         IN  IF ~pair_name.some
             THEN PairUnsupported(c)
             ELSE /\ kraken_frame
                  /\ \E raw \in BookResponses :
                       call' = orderbook_response(
                                   kraken_raw(c, "GET",
                                              [pair |-> pair_name.v, count |-> "1000"],
                                              raw),
                                   pair, raw)

----------------------------------------------------------------------------
(* Kraken: add_order. *)

OrderTypes == {"BuyLimit", "BuyMarket", "SellLimit", "SellMarket"}

\* add_order's first match.
direction(order_type) ==
    CASE order_type = "BuyLimit" -> "buy"
      [] order_type = "BuyMarket" -> "buy"
      [] order_type = "SellLimit" -> "sell"
      [] order_type = "SellMarket" -> "sell"

\* add_order's second match.
order_type_str(order_type) ==
    CASE order_type = "BuyLimit" -> "limit"
      [] order_type = "SellLimit" -> "limit"
      [] order_type = "BuyMarket" -> "market"
      [] order_type = "SellMarket" -> "market"

\* The price add_order hands to add_standard_order.
price_str(price) == IF price.some THEN to_string(price.v) ELSE ""

\* KrakenApi::add_standard_order: the fields of the request, the empty ones
\* left out.
add_standard_order(pair_name, type, ordertype, price, volume) ==
    strip_empties([pair |-> pair_name, type |-> type, ordertype |-> ordertype,
                   price |-> price, price2 |-> "", volume |-> volume,
                   leverage |-> "", oflags |-> "", starttm |-> "",
                   expiretm |-> "", userref |-> "", validate |-> ""])

TxidVals == {JStr("ABC123"), JStr("DEF456"), JNum(1)}

OrderData == {[txid |-> t] : t \in {Missing} \cup {JArr(a) : a \in SeqUpTo(TxidVals, MaxTxids)}}

OrderResponses == Failures([txid |-> Missing]) \cup {Ok(Envelope(<<>>, d)) : d \in OrderData}

\* The normalisation of an order confirmation (generic_api.rs lines 122-131).
add_order_normalize(c, result) ==
    IF /\ result.txid.present
       /\ \A i \in 1..Len(result.txid.arr) : as_str(result.txid.arr[i]).some
    THEN [c EXCEPT !.outcome = "Ok",
                   !.result = [timestamp |-> now,
                               identifier |-> [i \in 1..Len(result.txid.arr) |->
                                                  as_str(result.txid.arr[i]).v]]]
    ELSE [c EXCEPT !.outcome = "panic"]

\* What add_order does with the raw response.
add_order_response(c, raw) ==
    IF early_return(raw) # "" THEN returned_err(c, raw)
    ELSE add_order_normalize(c, parse_result(raw.v).v)

\* ExchangeApi::add_order for KrakenApi
add_order ==
    /\ Alive /\ exchange = "kraken"
    /\ \E order_type \in OrderTypes, pair \in Pairs, quantity \in Amounts,
          price \in {None} \cup {Some(p) : p \in Prices} :
         LET pair_name == kraken_get_pair_string(pair)
             c == [Begin("add_order", pair) EXCEPT
                      !.args = <<order_type, pair, quantity, price>>]
         IN  IF ~pair_name.some
             THEN PairUnsupported(c)
             ELSE /\ kraken_frame
                  /\ \E raw \in OrderResponses :
                    call' = add_order_response(
                                kraken_raw(c, "POST",
                                    add_standard_order(pair_name.v,
                                        direction(order_type),
                                        order_type_str(order_type),
                                        price_str(price),
                                        to_string(quantity)),
                                    raw),
                                raw)

----------------------------------------------------------------------------

Next ==
    \/ Tick
    \/ return_ticker
    \/ return_order_book
    \/ return_trade_history
    \/ return_balances
    \/ buy_limit
    \/ sell_limit
    \/ buy_market
    \/ sell_market
    \/ ticker
    \/ orderbook
    \/ add_order

Spec == Init /\ [][Next]_vars

----------------------------------------------------------------------------
(* The claims. *)

\* The registry of the client that was constructed.
Registry(pair) ==
    IF exchange = "bitstamp" THEN bitstamp_get_pair_string(pair)
    ELSE kraken_get_pair_string(pair)

\* The methods that go through private_query.
PrivateOps == {"return_balances", "buy_limit", "sell_limit", "buy_market", "sell_market"}

\* The names of the form fields of a POST body.
BodyKeys(body) == {f[1] : f \in body}

\* C1: a call made with a pair that has no token in the exchange's registry
\* returns PairUnsupported, and a call that returned PairUnsupported sent no
\* request, generated no nonce and left last_request (and the rest of the
\* client) as it found it.
C1_PairUnsupportedFailsFast ==
    /\ (call.op # "none" /\ ~Registry(call.pair).some)
          => call.outcome = "PairUnsupported"
    /\ call.outcome = "PairUnsupported"
          => /\ call.http = 0
             /\ call.nonces = 0
             /\ call.nonce = 0
             /\ last_request = call.pre_last_request
             /\ last_sent = call.pre_sent
             /\ max_nonce = call.pre_max_nonce

\* A private method refused an unsupported pair on a client that had already
\* sent requests and used nonces.
C1_Witness ==
    /\ call.op = "buy_limit"
    /\ call.outcome = "PairUnsupported"
    /\ last_request > 0
    /\ max_nonce > 0

\* C2: the POST body of a private query holds key, signature and nonce and
\* every non-empty method-specific field (amount, price, limit_price,
\* daily_order) the method passed.
C2_BodyCarriesMethodFields ==
    (exchange = "bitstamp" /\ call.verb = "POST")
       => /\ {"key", "signature", "nonce"} \subseteq BodyKeys(call.body)
          /\ \A k \in DOMAIN call.params \ {"method", "pair"} :
                call.params[k] # "" => <<k, call.params[k]>> \in call.body

\* C3: every request of a Bitstamp client is preceded by the rate limiter and
\* is sent at least MinInterval after the request before it.
C3_EveryRequestThrottled ==
    (exchange = "bitstamp" /\ call.http = 1)
       => /\ call.throttled
          /\ call.pre_sent >= 0 => call.sent_at - call.pre_sent >= MinInterval

\* C4: a query that obtained a response leaves last_request at the time the
\* response was obtained, also when the body is not JSON; a call that returned
\* PairUnsupported leaves last_request alone.
C4_ResponseSetsLastRequest ==
    exchange = "bitstamp"
       => /\ call.outcome \in {"Ok", "InvalidData"} => last_request = call.resp_at
          /\ call.outcome = "PairUnsupported" => last_request = call.pre_last_request

\* C5: the nonce a private query sends is strictly greater than every nonce
\* the instance sent before.
C5_NoncesStrictlyIncrease ==
    (exchange = "bitstamp" /\ call.nonces = 1)
       => call.nonce > call.pre_max_nonce

\* Two private queries one after the other with the clock standing still.
C5_Witness ==
    /\ call.op \in PrivateOps
    /\ call.nonces = 1
    /\ call.pre_max_nonce > 0
    /\ call.pre_sent = call.sent_at
    /\ call.outcome = "Ok"

\* C6: a transport failure in public_query or private_query comes back as a
\* Network error.
C6_TransportFailureIsNetworkError ==
    call.transport \in {"send_failed", "read_failed"} => call.outcome = "Network"

\* A Kraken call that got an envelope back from the exchange.
GotEnvelope == exchange = "kraken" /\ call.http = 1 /\ call.raw.ok

\* A Kraken call that got an envelope with an empty error list.
GotData == GotEnvelope /\ call.raw.v.error = <<>>

\* C7: when the response is an error envelope, ticker, orderbook and add_order
\* return ExchangeError with the remote messages and no canonical value.
C7_ErrorEnvelopeIsExchangeError ==
    (GotEnvelope /\ call.raw.v.error # <<>>)
       => /\ call.outcome = "ExchangeError"
          /\ call.error = call.raw.v.error
          /\ call.result = <<>>

\* ticker was answered with an error envelope.
C7_Witness ==
    /\ GotEnvelope
    /\ call.op = "ticker"
    /\ call.raw.v.error = <<"EAPI:Invalid signature">>
    /\ call.outcome = "ExchangeError"

\* C8: a Kraken call never panics: data that lacks a required field, or whose
\* price or volume is not a string holding a number, gives InvalidData;
\* a ticker without a volume is an Ok whose volume is None.
C8_MalformedDataIsInvalidData ==
    GotData
       => /\ call.outcome \in {"Ok", "InvalidData"}
          /\ (/\ call.op = "ticker"
              /\ call.raw.v.data.has_pair
              /\ call.raw.v.data.v = JNull
              /\ \A f \in {call.raw.v.data.c, call.raw.v.data.a, call.raw.v.data.b} :
                    unwrap_f64(f).some)
                => call.outcome = "Ok" /\ ~call.result.volume.some

\* The order types that are market orders.
MarketOrders == {"BuyMarket", "SellMarket"}

\* C9: the request add_order submits has type buy for BuyLimit and BuyMarket,
\* sell for the other two, ordertype limit for BuyLimit and SellLimit, market
\* for the other two, and no price when the order is a market order.
C9_MarketOrderCarriesNoPrice ==
    (exchange = "kraken" /\ call.op = "add_order" /\ call.http = 1)
       => LET order_type == call.args[1]
          IN  /\ call.params["type"] =
                    (IF order_type \in {"BuyLimit", "BuyMarket"} THEN "buy" ELSE "sell")
              /\ call.params["ordertype"] =
                    (IF order_type \in MarketOrders THEN "market" ELSE "limit")
              /\ order_type \in MarketOrders => "price" \notin DOMAIN call.params

\* An entry whose price and volume are numbers, as strings or as JSON numbers.
NumericEntry(e) ==
    \A i \in {1, 2} : e[i].t \in {"str", "num"} /\ parse_f64(e[i].s).some

\* An order book response that holds both arrays, every entry numeric.
WellFormedBook(d) ==
    /\ d.has_pair /\ d.asks.present /\ d.bids.present
    /\ \A i \in 1..Len(d.asks.arr) : NumericEntry(d.asks.arr[i])
    /\ \A i \in 1..Len(d.bids.arr) : NumericEntry(d.bids.arr[i])

\* `side` holds the entries of `arr`, one for one and in the same order,
\* index 0 as the price and index 1 as the volume.
SameOffers(side, arr) ==
    /\ Len(side) = Len(arr)
    /\ \A i \in 1..Len(arr) :
          /\ to_string(side[i][1]) = arr[i][1].s
          /\ to_string(side[i][2]) = arr[i][2].s

C11_LastRequestOnlyGrows ==
    [][/\ last_request' >= last_request
       /\ api_key' = api_key
       /\ api_secret' = api_secret
       /\ customer_id' = customer_id]_vars

\* A public query moved last_request forward a second time, private queries
\* having been made in between.
C11_Witness ==
    /\ exchange = "bitstamp"
    /\ call.verb = "GET"
    /\ call.pre_last_request > 0
    /\ last_request > call.pre_last_request
    /\ max_nonce > 0
    /\ api_key = "K" /\ api_secret = "S" /\ customer_id = "42"

=============================================================================
